---- MODULE Spec2Model ----
(***************************************************************************)
(* Model of terraform-provider-jks: the keystore resource handlers         *)
(* (Create / Read / Update / Delete) and the two KeystoreModel operations  *)
(* CreateKeystoreBase64 and UpdateKeystoreBase64, which orchestrate the    *)
(* external keytool binary around two fixed temp files.                    *)
(*                                                                         *)
(* Every system call of the two operations (exec keytool, os.ReadFile,     *)
(* os.WriteFile, os.Remove) is one step, so that the order of the steps,   *)
(* the residue a failed call leaves on disk and the interleaving of two    *)
(* invocations are all visible.  Environment failures (keytool missing,    *)
(* I/O errors) are nondeterministic.                                       *)
(***************************************************************************)
EXTENDS Integers, Sequences, FiniteSets, TLC

\* ---------------------------------------------------------------- bounds
\* number of identifiers uuid.New() may hand out in one run
MaxIds == 2
\* number of key pairs keytool -genkeypair may generate in one run
MaxKeys == 2
\* number of handler invocations in one parallel run
MaxCalls == 3

\* two resource instances managed by the provider in one working directory
Resources == {"r1", "r2"}
\* the values the required attribute "password" is configured with
Passwords == {"pwA", "pwB"}

\* ------------------------------------------------------------- constants
FILENAME == "79e00021-58b2-4652-b498-59134c0ed6e7.pkcs12"
FILENAME2 == "79e00021-58b2-4652-b498-59134c0ed6e72.pkcs12"
Files == {FILENAME, FILENAME2}
\* the fixed -alias of the generated key pair
ALIAS == "keystore"

\* ------------------------------------------------------------ file bytes
\* A file's content.  kind "ks" is a PKCS12 container protected by the store
\* password pass, holding entries [alias, key, keypass]; kind "empty" is the
\* empty byte string; kind "absent" marks a path at which no file exists.
KsBytes(p, es) == [kind |-> "ks", pass |-> p, entries |-> es]
EmptyBytes == [kind |-> "empty", pass |-> "", entries |-> {}]
Absent == [kind |-> "absent", pass |-> "", entries |-> {}]
Entry(k, kp) == [alias |-> ALIAS, key |-> k, keypass |-> kp]
Aliases(b) == {e.alias : e \in b.entries}

\* --------------------------------------------------------------- base64
\* A Go string holding base64 text: valid text carries the bytes it encodes,
\* invalid text decodes to an error.  "" is the encoding of the empty bytes.
EncodeToString(b) == [valid |-> TRUE, data |-> b]
EmptyString == EncodeToString(EmptyBytes)
JunkString == [valid |-> FALSE, data |-> EmptyBytes]
DecodeString(s) ==
    IF s.valid THEN [err |-> FALSE, bytes |-> s.data]
    ELSE [err |-> TRUE, bytes |-> EmptyBytes]

\* ---------------------------------------------------- framework values
\* types.String: a known value or unknown/null; ValueString gives "" for
\* the latter.
Known(s) == [known |-> TRUE, v |-> s]
Unknown == [known |-> FALSE, v |-> EmptyString]
ValueString(t) == IF t.known THEN t.v ELSE EmptyString

\* a null attribute value
NullValue == "<null>"

\* KeystoreResourceModel; Id 0 is the unknown id of a plan for Create.
\* CommonName stands for the optional distinguished-name attributes of the
\* schema that has them (they all carry the same plan modifier); it is null
\* in the schema without them.
ResourceModel(id, pw, txt) ==
    [Id |-> id, Password |-> pw, Base64Text |-> txt, CommonName |-> NullValue]
\* no resource in state
NoState == ResourceModel(0, "", Unknown)

KeystoreModel(pw, txt) == [Password |-> pw, Base64Text |-> txt]
ToKeystoreModel(d) == KeystoreModel(d.Password, ValueString(d.Base64Text))

\* ---------------------------------------------------------------- keytool
\* keytool -genkeypair -alias keystore -keypass kp -keystore f -storepass sp:
\* creates the keystore when no file exists at f; otherwise loads it with sp
\* and adds the entry, failing on a wrong password, on a file that is not a
\* keystore and on an alias that already exists.
Genkeypair(file, kp, sp, k) ==
    IF file.kind = "absent"
    THEN [ok |-> TRUE, file |-> KsBytes(sp, {Entry(k, kp)})]
    ELSE IF file.kind = "ks" /\ file.pass = sp /\ ALIAS \notin Aliases(file)
    THEN [ok |-> TRUE, file |-> KsBytes(sp, file.entries \cup {Entry(k, kp)})]
    ELSE [ok |-> FALSE, file |-> file]

\* keytool -importkeystore -srckeystore src -srcstorepass ssp -destkeystore
\* dst -deststorepass dsp -destkeypass dkp: loads src with ssp (also used as
\* the key password of its entries), creates dst or loads it with dsp, and
\* copies every entry re-protected with dkp.  No -noprompt and no stdin: an
\* alias that already exists in dst makes the command fail.
Importkeystore(src, ssp, dst, dsp, dkp) ==
    LET srcOk == /\ src.kind = "ks"
                 /\ src.pass = ssp
                 /\ \A e \in src.entries : e.keypass = ssp
        moved == {Entry(e.key, dkp) : e \in src.entries}
    IN  IF ~srcOk THEN [ok |-> FALSE, file |-> dst]
        ELSE IF dst.kind = "absent"
        THEN [ok |-> TRUE, file |-> KsBytes(dsp, moved)]
        ELSE IF /\ dst.kind = "ks"
                /\ dst.pass = dsp
                /\ Aliases(dst) \cap Aliases(src) = {}
        THEN [ok |-> TRUE, file |-> KsBytes(dsp, dst.entries \cup moved)]
        ELSE [ok |-> FALSE, file |-> dst]

\* ------------------------------------------------------------------ state
VARIABLES
    state,    \* Terraform state: resource -> KeystoreResourceModel or NoState
    fs,       \* working directory: file name -> bytes or Absent
    pc,       \* resource -> position of the handler running for it
    op,       \* resource -> the handler that runs or ran last for it
    frame,    \* resource -> locals of that handler and of the model call
    trace,    \* resource -> steps the model call of that handler performed
    diag,     \* resource -> resp.Diagnostics.HasError() of that handler
    actor,    \* the resource whose handler took the latest step
    cleanAtCall, \* resource -> neither temp file existed when its handler began
    overlap,  \* resource -> its model call ran while another one was running
    genKey,   \* resource -> the key pair keytool generated in its call, or 0
    parallel, \* Terraform runs handlers of different resources concurrently
    variant,  \* the schema in use: "base64_text" or "dn"
    calls,    \* handler invocations so far in a parallel run
    nextId,   \* next identifier uuid.New() returns
    nextKey   \* next key pair keytool generates

vars ==
    <<state, fs, pc, op, frame, trace, diag, actor, cleanAtCall, overlap, genKey,
      parallel, variant, calls, nextId, nextKey>>

\* locals: data / oldData of the handler, the receiver m and the argument
\* newPassword of the model call, decoded / bytes inside it, and its results
Frame(data, oldData, m, np) ==
    [data |-> data, oldData |-> oldData, m |-> m, newPassword |-> np,
     decoded |-> EmptyBytes, bytes |-> EmptyBytes,
     ret |-> EmptyString, err |-> FALSE]
NoFrame == Frame(NoState, NoState, KeystoreModel("", EmptyString), "")

Init ==
    /\ state = [r \in Resources |-> NoState]
    /\ fs = [f \in Files |-> Absent]
    /\ pc = [r \in Resources |-> "idle"]
    /\ op = [r \in Resources |-> "none"]
    /\ frame = [r \in Resources |-> NoFrame]
    /\ trace = [r \in Resources |-> <<>>]
    /\ diag = [r \in Resources |-> FALSE]
    /\ actor = "r1"
    /\ cleanAtCall = [r \in Resources |-> TRUE]
    /\ overlap = [r \in Resources |-> FALSE]
    /\ genKey = [r \in Resources |-> 0]
    /\ parallel = FALSE
    /\ variant = "base64_text"
    /\ calls = 0
    /\ nextId = 1
    /\ nextKey = 1

\* A handler starts for a resource none is running for; unless Terraform
\* runs resources in parallel, it starts when no handler is running at all.
CanStart(r) ==
    /\ pc[r] = "idle"
    /\ IF parallel THEN calls < MaxCalls
       ELSE \A q \in Resources : pc[q] = "idle"

\* a handler of r begins: its response starts without diagnostics
Begin(r, name, f, getErr, next) ==
    /\ op' = [op EXCEPT ![r] = name]
    /\ frame' = [frame EXCEPT ![r] = f]
    /\ trace' = [trace EXCEPT ![r] = <<>>]
    /\ diag' = [diag EXCEPT ![r] = getErr]
    /\ pc' = [pc EXCEPT ![r] = IF getErr THEN "idle" ELSE next]
    /\ actor' = r
    /\ cleanAtCall' = [cleanAtCall EXCEPT ![r] = \A n \in Files : fs[n] = Absent]
    /\ overlap' =
         IF getErr \/ next = "idle" THEN [overlap EXCEPT ![r] = FALSE]
         ELSE [q \in Resources |->
                 IF q = r THEN \E x \in Resources \ {r} : pc[x] # "idle"
                 ELSE overlap[q] \/ pc[q] # "idle"]
    /\ genKey' = [genKey EXCEPT ![r] = 0]
    /\ calls' = IF parallel THEN calls + 1 ELSE calls
    /\ UNCHANGED <<parallel, variant>>

\* a step of the model call of r: records the step, moves on or fails
Step(r, name, f, next) ==
    /\ frame' = [frame EXCEPT ![r] = f]
    /\ trace' = [trace EXCEPT ![r] = Append(@, name)]
    /\ pc' = [pc EXCEPT ![r] = next]
    /\ actor' = r
    /\ genKey' = [genKey EXCEPT ![r] =
                     IF name = "genkeypair" /\ ~f.err THEN nextKey ELSE @]
    /\ UNCHANGED <<op, diag, state, nextId, cleanAtCall, overlap, parallel, variant,
                   calls>>

\* return "", err
Fail(f) == [f EXCEPT !.ret = EmptyString, !.err = TRUE]

\* ------------------------------------------------------------ system calls
\* os.ReadFile: fails when no file exists and may fail on an I/O error
ReadFile(file) ==
    IF file.kind = "absent" THEN {[err |-> TRUE, bytes |-> EmptyBytes]}
    ELSE {[err |-> FALSE, bytes |-> file], [err |-> TRUE, bytes |-> EmptyBytes]}

\* os.Remove: fails when no file exists and may fail leaving the file
Remove(file) ==
    IF file.kind = "absent" THEN {[err |-> TRUE, file |-> file]}
    ELSE {[err |-> FALSE, file |-> Absent], [err |-> TRUE, file |-> file]}

\* os.WriteFile: creates or truncates and writes; a failure leaves the path
\* as it was (open failed) or holding an empty file (write failed)
WriteFile(file, b) ==
    {[err |-> FALSE, file |-> b], [err |-> TRUE, file |-> file],
     [err |-> TRUE, file |-> EmptyBytes]}

\* cmd.CombinedOutput: the command runs, or cannot be started / crashes
Exec == BOOLEAN

\* ------------------------------------------------- CreateKeystoreBase64
\* the passwords on the -genkeypair command line
CreateArgs(m) == [keypass |-> m.Password, storepass |-> m.Password]

CreateGenkeypair(r) ==
    /\ pc[r] = "c_genkeypair"
    /\ \E run \in Exec :
        LET a == CreateArgs(frame[r].m)
            out == Genkeypair(fs[FILENAME], a.keypass, a.storepass, nextKey)
        IN  IF run /\ out.ok
            THEN /\ fs' = [fs EXCEPT ![FILENAME] = out.file]
                 /\ nextKey' = nextKey + 1
                 /\ Step(r, "genkeypair", frame[r], "c_ReadFile")
            ELSE /\ UNCHANGED <<fs, nextKey>>
                 /\ Step(r, "genkeypair", Fail(frame[r]), "c_return")

CreateReadFile(r) ==
    /\ pc[r] = "c_ReadFile"
    /\ \E res \in ReadFile(fs[FILENAME]) :
        IF res.err
        THEN Step(r, "ReadFile", Fail(frame[r]), "c_return")
        ELSE Step(r, "ReadFile", [frame[r] EXCEPT !.bytes = res.bytes], "c_Remove")
    /\ UNCHANGED <<fs, nextKey>>

\* variant of CreateRemove that returns without removing the temp file
CreateRemove_Skips(r) ==
    /\ pc[r] = "c_Remove"
    /\ Step(r, "Remove", frame[r], "c_encode")
    /\ UNCHANGED <<fs, nextKey>>

CreateRemove(r) ==
    /\ pc[r] = "c_Remove"
    /\ \E res \in Remove(fs[FILENAME]) :
        /\ fs' = [fs EXCEPT ![FILENAME] = res.file]
        /\ IF res.err
           THEN Step(r, "Remove", Fail(frame[r]), "c_return")
           ELSE Step(r, "Remove", frame[r], "c_encode")
    /\ UNCHANGED nextKey

CreateEncode(r) ==
    /\ pc[r] = "c_encode"
    /\ Step(r, "encode",
            [frame[r] EXCEPT !.ret = EncodeToString(frame[r].bytes)], "c_return")
    /\ UNCHANGED <<fs, nextKey>>

\* ------------------------------------------------- UpdateKeystoreBase64
\* variant of UpdateArgs that keeps the old store password
UpdateArgs_KeepsStorePass(oldModel, newPassword) ==
    [srcstorepass |-> oldModel.Password,
     deststorepass |-> oldModel.Password,
     destkeypass |-> newPassword]

\* the passwords on the -importkeystore command line
UpdateArgs(oldModel, newPassword) ==
    [srcstorepass |-> oldModel.Password,
     deststorepass |-> newPassword,
     destkeypass |-> newPassword]

\* variant of UpdateDecode that goes on after a decode error
UpdateDecode_IgnoresErr(r) ==
    /\ pc[r] = "u_decode"
    /\ LET d == DecodeString(frame[r].m.Base64Text)
       IN  Step(r, "decode", [frame[r] EXCEPT !.decoded = d.bytes],
                "u_WriteFile")
    /\ UNCHANGED <<fs, nextKey>>

UpdateDecode(r) ==
    /\ pc[r] = "u_decode"
    /\ LET d == DecodeString(frame[r].m.Base64Text)
       IN  IF d.err
           THEN Step(r, "decode", Fail(frame[r]), "u_return")
           ELSE Step(r, "decode", [frame[r] EXCEPT !.decoded = d.bytes],
                     "u_WriteFile")
    /\ UNCHANGED <<fs, nextKey>>

UpdateWriteFile(r) ==
    /\ pc[r] = "u_WriteFile"
    /\ \E res \in WriteFile(fs[FILENAME], frame[r].decoded) :
        /\ fs' = [fs EXCEPT ![FILENAME] = res.file]
        /\ IF res.err
           THEN Step(r, "WriteFile", Fail(frame[r]), "u_return")
           ELSE Step(r, "WriteFile", frame[r], "u_importkeystore")
    /\ UNCHANGED nextKey

\* variant of UpdateImportkeystore that removes the first temp file when
\* keytool fails
UpdateImportkeystore_CleansUp(r) ==
    /\ pc[r] = "u_importkeystore"
    /\ \E run \in Exec :
        LET a == UpdateArgs(frame[r].m, frame[r].newPassword)
            out == Importkeystore(fs[FILENAME], a.srcstorepass,
                                  fs[FILENAME2], a.deststorepass, a.destkeypass)
        IN  IF run /\ out.ok
            THEN /\ fs' = [fs EXCEPT ![FILENAME2] = out.file]
                 /\ Step(r, "importkeystore", frame[r], "u_Remove1")
            ELSE /\ fs' = [fs EXCEPT ![FILENAME] = Absent]
                 /\ Step(r, "importkeystore", Fail(frame[r]), "u_return")
    /\ UNCHANGED nextKey

UpdateImportkeystore(r) ==
    /\ pc[r] = "u_importkeystore"
    /\ \E run \in Exec :
        LET a == UpdateArgs(frame[r].m, frame[r].newPassword)
            out == Importkeystore(fs[FILENAME], a.srcstorepass,
                                  fs[FILENAME2], a.deststorepass, a.destkeypass)
        IN  IF run /\ out.ok
            THEN /\ fs' = [fs EXCEPT ![FILENAME2] = out.file]
                 /\ Step(r, "importkeystore", frame[r], "u_Remove1")
            ELSE /\ UNCHANGED fs
                 /\ Step(r, "importkeystore", Fail(frame[r]), "u_return")
    /\ UNCHANGED nextKey

\* variant of UpdateRemove1 that removes the second temp file
UpdateRemove1_WrongFile(r) ==
    /\ pc[r] = "u_Remove1"
    /\ \E res \in Remove(fs[FILENAME2]) :
        /\ fs' = [fs EXCEPT ![FILENAME2] = res.file]
        /\ IF res.err
           THEN Step(r, "Remove1", Fail(frame[r]), "u_return")
           ELSE Step(r, "Remove1", frame[r], "u_ReadFile2")
    /\ UNCHANGED nextKey

\* variant of UpdateRemove1 that goes on to the read after a failed removal
UpdateRemove1_GoesOn(r) ==
    /\ pc[r] = "u_Remove1"
    /\ \E res \in Remove(fs[FILENAME]) :
        /\ fs' = [fs EXCEPT ![FILENAME] = res.file]
        /\ IF res.err
           THEN Step(r, "Remove1", Fail(frame[r]), "u_ReadFile2")
           ELSE Step(r, "Remove1", frame[r], "u_ReadFile2")
    /\ UNCHANGED nextKey

UpdateRemove1(r) ==
    /\ pc[r] = "u_Remove1"
    /\ \E res \in Remove(fs[FILENAME]) :
        /\ fs' = [fs EXCEPT ![FILENAME] = res.file]
        /\ IF res.err
           THEN Step(r, "Remove1", Fail(frame[r]), "u_return")
           ELSE Step(r, "Remove1", frame[r], "u_ReadFile2")
    /\ UNCHANGED nextKey

UpdateReadFile2(r) ==
    /\ pc[r] = "u_ReadFile2"
    /\ \E res \in ReadFile(fs[FILENAME2]) :
        IF res.err
        THEN Step(r, "ReadFile2", Fail(frame[r]), "u_return")
        ELSE Step(r, "ReadFile2", [frame[r] EXCEPT !.bytes = res.bytes],
                  "u_Remove2")
    /\ UNCHANGED <<fs, nextKey>>

UpdateRemove2(r) ==
    /\ pc[r] = "u_Remove2"
    /\ \E res \in Remove(fs[FILENAME2]) :
        /\ fs' = [fs EXCEPT ![FILENAME2] = res.file]
        /\ IF res.err
           THEN Step(r, "Remove2", Fail(frame[r]), "u_return")
           ELSE Step(r, "Remove2", frame[r], "u_encode")
    /\ UNCHANGED nextKey

UpdateEncode(r) ==
    /\ pc[r] = "u_encode"
    /\ Step(r, "encode",
            [frame[r] EXCEPT !.ret = EncodeToString(frame[r].bytes)], "u_return")
    /\ UNCHANGED <<fs, nextKey>>

\* ------------------------------------------------------ resource handlers
\* a handler of r returns
Return(r) ==
    /\ pc' = [pc EXCEPT ![r] = "idle"]
    /\ actor' = r
    /\ UNCHANGED <<fs, op, trace, nextKey, cleanAtCall, overlap, genKey, parallel,
                   variant, calls>>

\* the values the optional distinguished-name attribute is configured with
DNConfigs == IF variant = "dn" THEN {NullValue, "cnA"} ELSE {NullValue}

\* Create up to the call of CreateKeystoreBase64.  The framework calls it
\* for a resource that is not in state; the plan holds the configured
\* password, id and base64_text are unknown.
Create(r) ==
    /\ CanStart(r)
    /\ state[r] = NoState
    /\ nextId <= MaxIds
    /\ nextKey <= MaxKeys
    /\ \E p \in Passwords, c \in DNConfigs, getErr \in BOOLEAN :
        LET data == [ResourceModel(0, p, Unknown) EXCEPT !.CommonName = c]
        IN  IF getErr
            THEN Begin(r, "Create", NoFrame, TRUE, "idle")
            ELSE Begin(r, "Create",
                       Frame(data, NoState, ToKeystoreModel(data), ""),
                       FALSE, "c_genkeypair")
    /\ UNCHANGED <<state, fs, nextId, nextKey>>

\* variant of CreateReturn that does not look at the error
CreateReturn_IgnoresErr(r) ==
    /\ pc[r] = "c_return"
    /\ LET data == [frame[r].data EXCEPT
                       !.Id = nextId,
                       !.Base64Text = Known(frame[r].ret)]
       IN  /\ state' = [state EXCEPT ![r] = data]
           /\ frame' = [frame EXCEPT ![r].data = data]
           /\ nextId' = nextId + 1
           /\ UNCHANGED diag
    /\ Return(r)

\* Create after CreateKeystoreBase64 returned
CreateReturn(r) ==
    /\ pc[r] = "c_return"
    /\ IF frame[r].err
       THEN /\ diag' = [diag EXCEPT ![r] = TRUE]
            /\ UNCHANGED <<state, frame, nextId>>
       ELSE LET data == [frame[r].data EXCEPT
                            !.Id = nextId,
                            !.Base64Text = Known(frame[r].ret)]
            IN  /\ state' = [state EXCEPT ![r] = data]
                /\ frame' = [frame EXCEPT ![r].data = data]
                /\ nextId' = nextId + 1
                /\ UNCHANGED diag
    /\ Return(r)

\* variant of Read that saves the model without the computed blob
Read_DropsFile(r) ==
    /\ CanStart(r)
    /\ state[r] # NoState
    /\ \E getErr \in BOOLEAN :
        IF getErr
        THEN /\ Begin(r, "Read", NoFrame, TRUE, "idle")
             /\ UNCHANGED state
        ELSE LET data == state[r]
             IN  /\ Begin(r, "Read", Frame(data, NoState, NoFrame.m, ""),
                          FALSE, "idle")
                 /\ state' = [state EXCEPT ![r] =
                                 [data EXCEPT !.Base64Text = Unknown]]
    /\ UNCHANGED <<fs, nextId, nextKey>>

\* Read: state -> data -> state
Read(r) ==
    /\ CanStart(r)
    /\ state[r] # NoState
    /\ \E getErr \in BOOLEAN :
        IF getErr
        THEN /\ Begin(r, "Read", NoFrame, TRUE, "idle")
             /\ UNCHANGED state
        ELSE LET data == state[r]
             IN  /\ Begin(r, "Read", Frame(data, NoState, NoFrame.m, ""),
                          FALSE, "idle")
                 /\ state' = [state EXCEPT ![r] = data]
    /\ UNCHANGED <<fs, nextId, nextKey>>

\* variant of PlanId without the plan modifier: the planned id is unknown
PlanId_Unknown(st) == NoState.Id

\* UseStateForUnknown on the computed id: the planned id is the state's
PlanId(st) == st.Id

\* stringplanmodifier.RequiresReplaceIfConfigured: replacement is required
\* when planned and stored value differ and the configured value is not null
RequiresReplaceIfConfigured(config, plan, stored) ==
    config # NullValue /\ plan # stored

\* the plans Update may be handed for the stored st: a configured password
\* with base64_text unknown and a distinguished name (planned as configured)
\* that does not require replacement, or a plan equal to the state
PlannedUpdate(st) ==
    {[ResourceModel(PlanId(st), p, Unknown) EXCEPT !.CommonName = c] :
        p \in Passwords,
        c \in {x \in DNConfigs :
                  ~RequiresReplaceIfConfigured(x, x, st.CommonName)}}
    \cup {st}

\* variant of Update without the shortcut for a plan equal to the state
Update_NoShortcut(r) ==
    /\ CanStart(r)
    /\ state[r] # NoState
    /\ \E data \in PlannedUpdate(state[r]), getErr \in BOOLEAN :
        LET oldData == state[r]
        IN  IF getErr
            THEN /\ Begin(r, "Update", NoFrame, TRUE, "idle")
                 /\ UNCHANGED state
            ELSE /\ Begin(r, "Update",
                          Frame(data, oldData, ToKeystoreModel(oldData),
                                ToKeystoreModel(data).Password),
                          FALSE, "u_decode")
                 /\ UNCHANGED state
    /\ UNCHANGED <<fs, nextId, nextKey>>

\* Update up to the call of UpdateKeystoreBase64
Update(r) ==
    /\ CanStart(r)
    /\ state[r] # NoState
    /\ \E data \in PlannedUpdate(state[r]), getErr \in BOOLEAN :
        LET oldData == state[r]
        IN  IF getErr
            THEN /\ Begin(r, "Update", NoFrame, TRUE, "idle")
                 /\ UNCHANGED state
            ELSE IF data = oldData
            THEN /\ Begin(r, "Update", Frame(data, oldData, NoFrame.m, ""),
                          FALSE, "idle")
                 /\ state' = [state EXCEPT ![r] = data]
            ELSE /\ Begin(r, "Update",
                          Frame(data, oldData, ToKeystoreModel(oldData),
                                ToKeystoreModel(data).Password),
                          FALSE, "u_decode")
                 /\ UNCHANGED state
    /\ UNCHANGED <<fs, nextId, nextKey>>

\* variant of UpdateReturn that does not look at the error
UpdateReturn_IgnoresErr(r) ==
    /\ pc[r] = "u_return"
    /\ LET data == [frame[r].data EXCEPT
                       !.Base64Text = Known(frame[r].ret)]
       IN  /\ state' = [state EXCEPT ![r] = data]
           /\ frame' = [frame EXCEPT ![r].data = data]
           /\ UNCHANGED diag
    /\ UNCHANGED nextId
    /\ Return(r)

\* variant of UpdateReturn that saves the plan with the stored blob
UpdateReturn_KeepsOldFile(r) ==
    /\ pc[r] = "u_return"
    /\ IF frame[r].err
       THEN /\ diag' = [diag EXCEPT ![r] = TRUE]
            /\ UNCHANGED <<state, frame>>
       ELSE LET data == [frame[r].data EXCEPT
                            !.Base64Text = frame[r].oldData.Base64Text]
            IN  /\ state' = [state EXCEPT ![r] = data]
                /\ frame' = [frame EXCEPT ![r].data = data]
                /\ UNCHANGED diag
    /\ UNCHANGED nextId
    /\ Return(r)

\* Update after UpdateKeystoreBase64 returned
UpdateReturn(r) ==
    /\ pc[r] = "u_return"
    /\ IF frame[r].err
       THEN /\ diag' = [diag EXCEPT ![r] = TRUE]
            /\ UNCHANGED <<state, frame>>
       ELSE LET data == [frame[r].data EXCEPT
                            !.Base64Text = Known(frame[r].ret)]
            IN  /\ state' = [state EXCEPT ![r] = data]
                /\ frame' = [frame EXCEPT ![r].data = data]
                /\ UNCHANGED diag
    /\ UNCHANGED nextId
    /\ Return(r)

\* Delete: reads the state and returns; without an error diagnostic the
\* framework then removes the resource from state
Delete(r) ==
    /\ CanStart(r)
    /\ state[r] # NoState
    /\ \E getErr \in BOOLEAN :
        IF getErr
        THEN /\ Begin(r, "Delete", NoFrame, TRUE, "idle")
             /\ UNCHANGED state
        ELSE /\ Begin(r, "Delete", Frame(state[r], NoState, NoFrame.m, ""),
                      FALSE, "idle")
             /\ state' = [state EXCEPT ![r] = NoState]
    /\ UNCHANGED <<fs, nextId, nextKey>>

\* ---------------------------------------------------------- specification
Next ==
    \E r \in Resources :
        \/ Create(r)
        \/ CreateGenkeypair(r)
        \/ CreateReadFile(r)
        \/ CreateRemove(r)
        \/ CreateEncode(r)
        \/ CreateReturn(r)
        \/ Read(r)
        \/ Update(r)
        \/ UpdateDecode(r)
        \/ UpdateWriteFile(r)
        \/ UpdateImportkeystore(r)
        \/ UpdateRemove1(r)
        \/ UpdateReadFile2(r)
        \/ UpdateRemove2(r)
        \/ UpdateEncode(r)
        \/ UpdateReturn(r)
        \/ Delete(r)

Spec == Init /\ [][Next]_vars

\* The same program started on a Terraform state that was not written by this
\* provider (edited by hand or imported): a stored blob may be text that is
\* not base64, or the empty text.
StoredByHand ==
    {NoState} \cup
    {ResourceModel(MaxIds + 1, "pwA", Known(t)) : t \in {JunkString, EmptyString}}

InitCorrupt ==
    /\ state \in [Resources -> StoredByHand]
    /\ fs = [f \in Files |-> Absent]
    /\ pc = [r \in Resources |-> "idle"]
    /\ op = [r \in Resources |-> "none"]
    /\ frame = [r \in Resources |-> NoFrame]
    /\ trace = [r \in Resources |-> <<>>]
    /\ diag = [r \in Resources |-> FALSE]
    /\ actor = "r1"
    /\ cleanAtCall = [r \in Resources |-> TRUE]
    /\ overlap = [r \in Resources |-> FALSE]
    /\ genKey = [r \in Resources |-> 0]
    /\ parallel = FALSE
    /\ variant = "base64_text"
    /\ calls = 0
    /\ nextId = 1
    /\ nextKey = 1

SpecCorrupt == InitCorrupt /\ [][Next]_vars

\* The same program with Terraform walking the two resources in parallel
\* (its default): a handler of one may run while a handler of the other does.
InitParallel ==
    /\ state = [r \in Resources |-> NoState]
    /\ fs = [f \in Files |-> Absent]
    /\ pc = [r \in Resources |-> "idle"]
    /\ op = [r \in Resources |-> "none"]
    /\ frame = [r \in Resources |-> NoFrame]
    /\ trace = [r \in Resources |-> <<>>]
    /\ diag = [r \in Resources |-> FALSE]
    /\ actor = "r1"
    /\ cleanAtCall = [r \in Resources |-> TRUE]
    /\ overlap = [r \in Resources |-> FALSE]
    /\ genKey = [r \in Resources |-> 0]
    /\ parallel = TRUE
    /\ variant = "base64_text"
    /\ calls = 0
    /\ nextId = 1
    /\ nextKey = 1

SpecParallel == InitParallel /\ [][Next]_vars

\* The resource with the distinguished-name attributes in its schema, run
\* serially.  Its handlers are those above; the -dname its keytool command
\* line is given is not part of the keystore bytes modelled here.
InitDN ==
    /\ state = [r \in Resources |-> NoState]
    /\ fs = [f \in Files |-> Absent]
    /\ pc = [r \in Resources |-> "idle"]
    /\ op = [r \in Resources |-> "none"]
    /\ frame = [r \in Resources |-> NoFrame]
    /\ trace = [r \in Resources |-> <<>>]
    /\ diag = [r \in Resources |-> FALSE]
    /\ actor = "r1"
    /\ cleanAtCall = [r \in Resources |-> TRUE]
    /\ overlap = [r \in Resources |-> FALSE]
    /\ genKey = [r \in Resources |-> 0]
    /\ parallel = FALSE
    /\ variant = "dn"
    /\ calls = 0
    /\ nextId = 1
    /\ nextKey = 1

SpecDN == InitDN /\ [][Next]_vars

\* ================================================================ claims
FullCreate == <<"genkeypair", "ReadFile", "Remove", "encode">>
FullUpdate ==
    <<"decode", "WriteFile", "importkeystore", "Remove1", "ReadFile2",
      "Remove2", "encode">>
IsPrefix(s, t) == Len(s) <= Len(t) /\ \A i \in 1..Len(s) : s[i] = t[i]
Last(s) == s[Len(s)]

\* the handler named h has run for r, called the model operation, and returned
Called(r, h) == op[r] = h /\ pc[r] = "idle" /\ trace[r] # <<>>

\* C1: Create is all-or-nothing.  When CreateKeystoreBase64 fails (at keytool,
\* at reading the temp file or at removing it) it returns "" with an error,
\* and Create reports an error diagnostic and leaves the resource out of state
\* with no id; only when all three steps succeeded is the base64 of the bytes
\* read returned and written to state together with a new id.
C1_CreateAllOrNothing ==
    \A r \in Resources :
        /\ (op[r] = "Create" /\ frame[r].err) => frame[r].ret = EmptyString
        /\ (op[r] = "Create" /\ frame[r].ret # EmptyString) =>
                /\ trace[r] = FullCreate
                /\ ~frame[r].err
        /\ Called(r, "Create") =>
            IF frame[r].err
            THEN /\ Last(trace[r]) \in {"genkeypair", "ReadFile", "Remove"}
                 /\ diag[r]
                 /\ state[r] = NoState
            ELSE /\ trace[r] = FullCreate
                 /\ ~diag[r]
                 /\ frame[r].ret = EncodeToString(frame[r].bytes)
                 /\ frame[r].ret # EmptyString
                 /\ state[r].Id # 0
                 /\ state[r] = ResourceModel(state[r].Id,
                                             frame[r].m.Password,
                                             Known(frame[r].ret))

\* one Create failed at the removal of the temp file, another one succeeded
C1_Witness ==
    \E r, q \in Resources :
        /\ Called(r, "Create") /\ frame[r].err /\ Last(trace[r]) = "Remove"
        /\ state[r] = NoState
        /\ Called(q, "Create") /\ ~frame[q].err /\ state[q] # NoState

\* C2: Update is all-or-nothing for the stored value.  When any step of
\* UpdateKeystoreBase64 fails it returns "" with an error, and Update reports
\* an error diagnostic and leaves id, password and blob in state as they were
\* before the Update.
C2_UpdateAllOrNothing ==
    \A r \in Resources :
        /\ (op[r] = "Update" /\ frame[r].err) => frame[r].ret = EmptyString
        /\ (Called(r, "Update") /\ frame[r].err) =>
                /\ Last(trace[r]) \in
                     {"decode", "WriteFile", "importkeystore", "Remove1",
                      "ReadFile2", "Remove2"}
                /\ diag[r]
                /\ state[r] = frame[r].oldData
                /\ state[r] # NoState

\* an Update to another password failed at the removal of the second temp file
C2_Witness ==
    \E r \in Resources :
        /\ Called(r, "Update") /\ frame[r].err /\ Last(trace[r]) = "Remove2"
        /\ frame[r].data.Password # frame[r].oldData.Password
        /\ state[r] = frame[r].oldData

\* the Update running or last run for r was handed a stored blob that is not
\* base64
JunkUpdate(r) == op[r] = "Update" /\ ~frame[r].m.Base64Text.valid

\* C3: when the stored blob is not valid base64, UpdateKeystoreBase64 fails
\* with the decode error as its only step: no subprocess is run, no temp file
\* is written or removed, and the working directory is left as it was.
C3_DecodeFailsFast ==
    [][\A r \in Resources :
        /\ JunkUpdate(r)' =>
            /\ IsPrefix(trace'[r], <<"decode">>)
            /\ pc'[r] \in {"u_decode", "u_return", "idle"}
            /\ trace'[r] = <<"decode">> =>
                    frame'[r].err /\ frame'[r].ret = EmptyString
        /\ (JunkUpdate(r)' /\ actor' = r) =>
            fs' = fs /\ nextKey' = nextKey]_vars

\* an Update of a blob that is not base64 has returned after the decode
C3_Witness ==
    \E r \in Resources :
        /\ JunkUpdate(r) /\ Called(r, "Update")
        /\ trace[r] = <<"decode">> /\ frame[r].err /\ diag[r]

\* C4: UpdateKeystoreBase64 performs decode, write of the first temp file,
\* keytool -importkeystore, removal of the first temp file, read of the second,
\* removal of the second and the encoding of the bytes read, each once and in
\* this order; a successful call performed all of them, and after a failed
\* step no further step runs.
C4_UpdateStepsInOrder ==
    [][\A r \in Resources :
        /\ op'[r] = "Update" =>
            /\ IsPrefix(trace'[r], FullUpdate)
            /\ frame'[r].err => pc'[r] \in {"u_return", "idle"}
            /\ (Called(r, "Update")' /\ ~frame'[r].err) =>
                    /\ trace'[r] = FullUpdate
                    /\ frame'[r].ret = EncodeToString(frame'[r].bytes)
        /\ (op[r] = "Update" /\ frame[r].err) =>
            trace'[r] \in {trace[r], <<>>}]_vars

\* one Update went through all seven steps, another stopped at keytool
C4_Witness ==
    \E r, q \in Resources :
        /\ Called(r, "Update") /\ ~frame[r].err /\ trace[r] = FullUpdate
        /\ Called(q, "Update") /\ frame[q].err
        /\ trace[q] = <<"decode", "WriteFile", "importkeystore">>

\* the bytes b are a keystore that opens with the password p, as do its keys
ProtectedBy(b, p) ==
    /\ b.kind = "ks"
    /\ b.pass = p
    /\ b.entries # {}
    /\ \A e \in b.entries : e.keypass = p

\* C5: after any sequence of successful and failed Create and Update
\* operations the blob in state is a keystore whose store password and key
\* password are the password in state.
C5_BlobProtectedByStatePassword ==
    \A r \in Resources :
        state[r] # NoState =>
            /\ state[r].Base64Text.known
            /\ state[r].Base64Text.v.valid
            /\ ProtectedBy(state[r].Base64Text.v.data, state[r].Password)

\* an Update changed the password after another Update had failed
C5_Witness ==
    \E r, q \in Resources :
        /\ Called(r, "Update") /\ ~frame[r].err
        /\ state[r].Password # frame[r].oldData.Password
        /\ ProtectedBy(state[r].Base64Text.v.data, frame[r].newPassword)
        /\ Called(q, "Update") /\ frame[q].err /\ state[q] # NoState

\* C6: the id is assigned once, by a successful Create, and no Update or Read
\* changes it: as long as the resource stays in state its id is the one
\* written at creation.
C6_IdStable ==
    [][\A r \in Resources :
        /\ (state[r] # NoState /\ state'[r] # NoState) =>
                state'[r].Id = state[r].Id
        /\ (state[r] = NoState /\ state'[r] # NoState) =>
                /\ op'[r] = "Create"
                /\ state'[r].Id = nextId
                /\ nextId' = nextId + 1]_vars

\* a password-only Update succeeded and the id is the one stored before
C6_Witness ==
    \E r \in Resources :
        /\ Called(r, "Update") /\ ~frame[r].err
        /\ frame[r].data.Password # frame[r].oldData.Password
        /\ state[r].Id = frame[r].oldData.Id
        /\ state[r].Id \in 1..MaxIds

\* C7: a successful Update that changes the password stores the blob the
\* rotation returned, and that blob differs from the one stored before.
C7_UpdateReplacesBlob ==
    \A r \in Resources :
        (/\ Called(r, "Update")
         /\ ~frame[r].err
         /\ frame[r].newPassword # frame[r].oldData.Password) =>
            /\ state[r].Base64Text = Known(frame[r].ret)
            /\ state[r].Base64Text # frame[r].oldData.Base64Text
            /\ state[r].Password = frame[r].newPassword

\* a rotation to a new password has stored a new blob
C7_Witness ==
    \E r \in Resources :
        /\ Called(r, "Update") /\ ~frame[r].err
        /\ frame[r].newPassword # frame[r].oldData.Password
        /\ state[r].Base64Text = Known(frame[r].ret)
        /\ frame[r].oldData.Base64Text.known

\* C8: Read changes nothing: a Read leaves every resource's stored id,
\* password and blob as they were, runs no step of a model operation (no
\* subprocess, no temp file access) and leaves the working directory as it
\* was.
C8_ReadChangesNothing ==
    [][\A r \in Resources :
        (actor' = r /\ op'[r] = "Read" /\ pc[r] = "idle" /\ pc'[r] = "idle") =>
            /\ state' = state
            /\ fs' = fs
            /\ trace'[r] = <<>>
            /\ nextKey' = nextKey]_vars

\* a Read has returned without error for a stored resource
C8_Witness ==
    \E r \in Resources :
        /\ op[r] = "Read" /\ pc[r] = "idle" /\ ~diag[r] /\ actor = r
        /\ state[r] # NoState /\ state[r] = frame[r].data

\* C9: no file exists at the first temp filename when keytool -genkeypair is
\* run, so a blob returned by Create holds only the key generated by that
\* call.
C9_GenkeypairInFreshKeystore ==
    \A r \in Resources :
        /\ pc[r] = "c_genkeypair" => fs[FILENAME] = Absent
        /\ (Called(r, "Create") /\ ~frame[r].err) =>
                Cardinality(frame[r].bytes.entries) = 1

\* the handler of r has just returned from a successful model operation
JustSucceeded(r) ==
    /\ actor = r
    /\ pc[r] = "idle"
    /\ op[r] \in {"Create", "Update"}
    /\ trace[r] # <<>>
    /\ ~frame[r].err

\* C10: when neither temp file exists as CreateKeystoreBase64 or
\* UpdateKeystoreBase64 is called, neither exists once the call has completed
\* successfully.
C10_NoTempFileAfterSuccess ==
    \A r \in Resources :
        (JustSucceeded(r) /\ cleanAtCall[r]) =>
            \A n \in Files : fs[n] = Absent

\* a Create and an Update have succeeded from a clean working directory
C10_Witness ==
    \E r, q \in Resources :
        /\ JustSucceeded(r) /\ cleanAtCall[r] /\ op[r] = "Update"
        /\ Called(q, "Create") /\ ~frame[q].err /\ cleanAtCall[q]
        /\ \A n \in Files : fs[n] = Absent

\* the UpdateKeystoreBase64 call of r has just failed at the step named step
JustFailedAt(r, step) ==
    /\ actor = r
    /\ op[r] = "Update"
    /\ frame[r].err
    /\ Last(trace[r]) = step

\* C11: a failed UpdateKeystoreBase64 cleans nothing up.  After a failure of
\* keytool -importkeystore the first temp file is on disk holding the decoded
\* old keystore; after a failed removal of the first temp file both temp files
\* are on disk; after a failed read of the second temp file the first is gone
\* and the second is still there; and no step after the failure touches the
\* working directory.
C11_NoCleanupOnError ==
    [][\A r \in Resources :
        /\ JustFailedAt(r, "importkeystore")' =>
                /\ fs'[FILENAME] = frame'[r].decoded
                /\ fs'[FILENAME] # Absent
        /\ JustFailedAt(r, "Remove1")' =>
                /\ fs'[FILENAME] # Absent
                /\ fs'[FILENAME2] # Absent
        /\ JustFailedAt(r, "ReadFile2")' =>
                /\ fs'[FILENAME] = Absent
                /\ fs'[FILENAME2] # Absent
        /\ (op[r] = "Update" /\ frame[r].err /\ pc[r] = "u_return"
                /\ actor' = r) => fs' = fs]_vars

\* one Update has failed at keytool and left the decoded old keystore behind,
\* after another had failed at the read and left the second temp file
C11_Witness ==
    \E r, q \in Resources :
        /\ JustFailedAt(r, "importkeystore") /\ pc[r] = "idle"
        /\ fs[FILENAME] = state[r].Base64Text.v.data
        /\ fs[FILENAME].kind = "ks"
        /\ Called(q, "Update") /\ frame[q].err /\ Last(trace[q]) = "ReadFile2"
        /\ fs[FILENAME2] # Absent

\* C14: UpdateKeystoreBase64 is not affected by what earlier operations left
\* behind: when keytool -importkeystore runs, no file exists at the second temp
\* filename and the first temp file holds the decoded old blob, so the command
\* succeeds whenever the old blob opens with the old password, and a successful
\* call returns exactly the entries of the old blob.
C14_UpdateIgnoresResidue ==
    \A r \in Resources :
        /\ pc[r] = "u_importkeystore" =>
                /\ fs[FILENAME2] = Absent
                /\ fs[FILENAME] = frame[r].decoded
                /\ Importkeystore(fs[FILENAME], frame[r].m.Password,
                                  fs[FILENAME2], frame[r].newPassword,
                                  frame[r].newPassword).ok
        /\ (Called(r, "Update") /\ ~frame[r].err) =>
                {e.key : e \in frame[r].bytes.entries} =
                    {e.key : e \in frame[r].decoded.entries}

\* C15: Update handed a plan deeply equal to the prior state writes it back
\* and returns without calling UpdateKeystoreBase64 (no step, no temp file, the
\* stored value unchanged); handed any other plan, and with no error reading
\* plan and state, it calls UpdateKeystoreBase64 once, on the state's model
\* with the plan's password.
C15_UpdateShortcut ==
    [][\A r \in Resources :
        /\ (actor' = r /\ pc[r] = "idle" /\ op'[r] = "Update" /\ ~diag'[r]) =>
            /\ frame'[r].oldData = state[r]
            /\ fs' = fs
            /\ state' = state
            /\ trace'[r] = <<>>
            /\ IF frame'[r].data = state[r]
               THEN pc'[r] = "idle"
               ELSE /\ pc'[r] = "u_decode"
                    /\ frame'[r].m = ToKeystoreModel(state[r])
                    /\ frame'[r].newPassword = frame'[r].data.Password
        /\ op'[r] = "Update" =>
            Cardinality({i \in 1..Len(trace'[r]) : trace'[r][i] = "decode"}) =
                (IF trace'[r] = <<>> THEN 0 ELSE 1)]_vars

\* an Update with a plan equal to the state has returned at once
C15_Witness ==
    \E r \in Resources :
        /\ actor = r /\ op[r] = "Update" /\ pc[r] = "idle" /\ ~diag[r]
        /\ trace[r] = <<>>
        /\ frame[r].data = frame[r].oldData
        /\ state[r] = frame[r].oldData
        /\ state[r] # NoState

\* the keystore the model call of r makes for its own inputs: for Create the
\* key pair generated in this call under the configured password, for Update
\* the entries of the decoded old blob under the new password
Expected(r) ==
    IF op[r] = "Create"
    THEN KsBytes(frame[r].m.Password,
                 {Entry(genKey[r], frame[r].m.Password)})
    ELSE KsBytes(frame[r].newPassword,
                 {Entry(e.key, frame[r].newPassword) :
                     e \in frame[r].decoded.entries})

\* the model call of r succeeded and returned another keystore than that
Foreign(r) ==
    /\ op[r] \in {"Create", "Update"}
    /\ pc[r] = "idle"
    /\ trace[r] # <<>>
    /\ ~frame[r].err
    /\ frame[r].bytes # Expected(r)

\* the model call of r has just failed reading or removing a temp file that
\* does not exist
MissingFile(r) ==
    /\ actor = r
    /\ pc[r] \in {"c_return", "u_return"}
    /\ frame[r].err
    /\ \/ /\ Last(trace[r]) \in {"ReadFile", "Remove", "Remove1"}
          /\ fs[FILENAME] = Absent
       \/ /\ Last(trace[r]) \in {"ReadFile2", "Remove2"}
          /\ fs[FILENAME2] = Absent

\* C12: concurrent invocations are unsafe because of the fixed temp
\* filenames.  With two invocations interleaved in one working directory an
\* invocation can return a keystore that is not the one made for its inputs,
\* or fail on a temp file the other invocation removed (the witness); and this
\* happens only to an invocation that ran while another one was running.
C12_DamageOnlyWhenConcurrent ==
    \A r \in Resources : (Foreign(r) \/ MissingFile(r)) => overlap[r]

\* a Create has returned the keystore another invocation wrote to the first
\* temp file, and that invocation then failed to remove the file
C12_Witness ==
    \E r, q \in Resources :
        /\ Foreign(r) /\ op[r] = "Create" /\ state[r] # NoState
        /\ MissingFile(q) /\ op[q] = "Update" /\ Last(trace[q]) = "Remove1"

\* C13: a change of a distinguished-name attribute never reaches the
\* password rotation: Update is only invoked with a plan whose distinguished
\* name equals the stored one, and a stored distinguished name changes only
\* through Delete followed by Create.
C13_DNChangeNeverUpdates ==
    \A r \in Resources :
        (op[r] = "Update" /\ ~diag[r] /\ frame[r].oldData # NoState) =>
            frame[r].data.CommonName = frame[r].oldData.CommonName

====
